---- MODULE Spec2Model ----
(* A model of the playbook knowledge server: the markdown server                *)
(* (src/arduino_doc.py) and the JSON server (src/arduino_doc_json.py).          *)
(* Strings are sequences of one-character strings, so that lower(), strip(),    *)
(* join and the substring test are computed, not assumed.                       *)
EXTENDS Integers, Sequences, FiniteSets, TLC

VARIABLES server, docExists, docReadable, docMtime, docBlocks,
          knowledge_index, last_mtime, prevRet, response,
          tpc, tmtime, tlocal, tret

vars == <<server, docExists, docReadable, docMtime, docBlocks,
          knowledge_index, last_mtime, prevRet, response,
          tpc, tmtime, tlocal, tret>>

(* ------------------------------------------------------------------------ *)
(* Bounds of the model                                                      *)
(* ------------------------------------------------------------------------ *)

\* Largest modification timestamp the document takes (each write gives a new one).
MaxMtime == 2

\* Largest top_k a direct smart_search call is given (the smallest is -1).
MaxTopK == 3

\* Largest number of blocks of the documents every block sequence is drawn for.
MaxBlocks == 3

\* Largest number of rows, and of cells in a row, of the tables serialized by themselves.
MaxRows == 2
MaxCells == 2

(* ------------------------------------------------------------------------ *)
(* Program constants                                                        *)
(* ------------------------------------------------------------------------ *)

RelevanceFloor == 40
ShortBoldLen == 60
TruncateAt == 2000
JsonSectionCap == 5
MdDefaultTopK == 3
JsonDefaultTopK == 2
\* final_score = t_score * 0.7 + c_score * 0.3, in tenths.
TitleWeight == 7
ContentWeight == 3

(* ------------------------------------------------------------------------ *)
(* Strings                                                                  *)
(* ------------------------------------------------------------------------ *)

UpperChars == <<"A", "B", "C", "D", "E", "F", "G", "H", "I", "J", "K", "L", "M",
                "N", "O", "P", "Q", "R", "S", "T", "U", "V", "W", "X", "Y", "Z">>

LowerChars == <<"a", "b", "c", "d", "e", "f", "g", "h", "i", "j", "k", "l", "m",
                "n", "o", "p", "q", "r", "s", "t", "u", "v", "w", "x", "y", "z">>

Whitespace == {" ", "\n", "\t"}

UpperSet == {UpperChars[i] : i \in 1..Len(UpperChars)}

LowerOf == [c \in UpperSet |->
               LowerChars[CHOOSE i \in 1..Len(UpperChars) : UpperChars[i] = c]]

LowerChar(c) == IF c \in UpperSet THEN LowerOf[c] ELSE c

\* str.lower()
Lower(s) == [i \in 1..Len(s) |-> LowerChar(s[i])]

\* str.startswith(p)
StartsWith(s, p) == Len(s) >= Len(p) /\ SubSeq(s, 1, Len(p)) = p

\* p in s
Contains(s, p) ==
    \E i \in 0..(Len(s) - Len(p)) : SubSeq(s, i + 1, i + Len(p)) = p

RECURSIVE FirstInk(_, _)
\* The first place from i on that holds no whitespace (Len(s) + 1: none).
FirstInk(s, i) ==
    IF i > Len(s) \/ s[i] \notin Whitespace THEN i ELSE FirstInk(s, i + 1)

RECURSIVE LastInk(_, _)
\* The last place up to i that holds no whitespace (0: none).
LastInk(s, i) ==
    IF i < 1 \/ s[i] \notin Whitespace THEN i ELSE LastInk(s, i - 1)

\* str.strip()
Strip(s) ==
    LET lo == FirstInk(s, 1)
    IN  IF lo > Len(s) THEN << >> ELSE SubSeq(s, lo, LastInk(s, Len(s)))

\* str.replace("\n", " ")
ReplaceNewlines(s) == [i \in 1..Len(s) |-> IF s[i] = "\n" THEN " " ELSE s[i]]

RECURSIVE Join(_, _)
\* sep.join(parts)
Join(sep, parts) ==
    IF parts = << >> THEN << >>
    ELSE IF Len(parts) = 1 THEN parts[1]
    ELSE parts[1] \o sep \o Join(sep, Tail(parts))

Truthy(s) == s # << >>

GENERAL_OVERVIEW == <<"G", "e", "n", "e", "r", "a", "l", " ", "O", "v", "e", "r", "v", "i", "e", "w">>
UNLABELED_SECTION == <<"U", "n", "l", "a", "b", "e", "l", "e", "d", " ", "S", "e", "c", "t", "i", "o", "n">>
HEADING_1 == <<"H", "e", "a", "d", "i", "n", "g", " ", "1">>
HEADING == <<"H", "e", "a", "d", "i", "n", "g">>
GraphPrefixMd == <<"\n", ">", " ", "[", "G", "r", "a", "p", "h", " ", "i", "n", " ", "t", "h", "i", "s", " ", "s", "e", "c", "t", "i", "o", "n", ":", " ">>
GraphPrefixJson == <<"\n", ">", " ", "G", "r", "a", "p", "h", " ", "i", "n", " ", "t", "h", "i", "s", " ", "s", "e", "c", "t", "i", "o", "n", ":", " ">>
GraphSuffix == <<"]", " ", "(", "P", "l", "e", "a", "s", "e", " ", "s", "e", "a", "r", "c", "h", " ", "i", "n", " ", "o", "r", "i", "g", "i", "n", "a", "l", " ", "d", "o", "c", "u", "m", "e", "n", "t", ")", "\n">>

(* ------------------------------------------------------------------------ *)
(* Table serializer                                                         *)
(* ------------------------------------------------------------------------ *)

\* "| " + " | ".join(cells) + " |"
TableLine(cells) == <<"|", " ">> \o Join(<<" ", "|", " ">>, cells) \o <<" ", "|">>

RECURSIVE TableRows_SeparatorAfterEveryRow(_, _)
\* The loop over table.rows without the test i == 0.
TableRows_SeparatorAfterEveryRow(rows, i) ==
    IF i > Len(rows) THEN << >>
    ELSE LET cells == [k \in 1..Len(rows[i]) |-> ReplaceNewlines(Strip(rows[i][k]))]
             sep == [k \in 1..Len(cells) |-> <<"-", "-", "-">>]
         IN  <<TableLine(cells), TableLine(sep)>>
             \o TableRows_SeparatorAfterEveryRow(rows, i + 1)

RECURSIVE TableRows(_, _)
\* The loop over table.rows: every row a line, the separator after row 0.
TableRows(rows, i) ==
    IF i > Len(rows) THEN << >>
    ELSE LET cells == [k \in 1..Len(rows[i]) |-> ReplaceNewlines(Strip(rows[i][k]))]
             sep == [k \in 1..Len(cells) |-> <<"-", "-", "-">>]
         IN  (IF i = 1 THEN <<TableLine(cells), TableLine(sep)>>
                       ELSE <<TableLine(cells)>>)
             \o TableRows(rows, i + 1)

parse_table_to_markdown(rows) ==
    <<"\n">> \o Join(<<"\n">>, TableRows(rows, 1)) \o <<"\n">>

(* ------------------------------------------------------------------------ *)
(* Section extractor: the body of build_knowledge_index after the parse     *)
(* ------------------------------------------------------------------------ *)

\* A body child of the document.  tag: "p", "tbl" or "other" (any other
\* element); text: para.text; style: para.style.name; bold: the truth value of
\* para.runs[0].bold (False without runs); rows: the table's cell texts;
\* drawing: whether the element holds a w:drawing.
Block(tag, text, style, bold, rows, drawing) ==
    [tag |-> tag, text |-> text, style |-> style, bold |-> bold,
     rows |-> rows, drawing |-> drawing]

ExtractInit ==
    [index |-> << >>, current_main_topic |-> GENERAL_OVERVIEW,
     current_sub_topic |-> << >>, current_content |-> << >>]

\* The flush without the test of the trimmed text.
save_current_section_KeepEmpty(st) ==
    IF st.current_content # << >>
    THEN Append(st.index,
           [main_topic |-> st.current_main_topic,
            sub_topic |-> IF Truthy(st.current_sub_topic)
                          THEN st.current_sub_topic
                          ELSE st.current_main_topic,
            content |-> Strip(Join(<<"\n">>, st.current_content)),
            search_key |-> Lower(st.current_main_topic \o <<" ">>
                                 \o st.current_sub_topic)])
    ELSE st.index

\* save_current_section(): the index after the flush.
save_current_section(st) ==
    IF st.current_content # << >>
    THEN LET text == Strip(Join(<<"\n">>, st.current_content))
         IN  IF Truthy(text)
             THEN Append(st.index,
                    [main_topic |-> st.current_main_topic,
                     sub_topic |-> IF Truthy(st.current_sub_topic)
                                   THEN st.current_sub_topic
                                   ELSE st.current_main_topic,
                     content |-> text,
                     search_key |-> Lower(st.current_main_topic \o <<" ">>
                                          \o st.current_sub_topic)])
             ELSE st.index
    ELSE st.index

GraphNote(srv, st) ==
    (IF srv = "md" THEN GraphPrefixMd ELSE GraphPrefixJson)
    \o (IF Truthy(st.current_sub_topic) THEN st.current_sub_topic
        ELSE UNLABELED_SECTION)
    \o GraphSuffix

\* The loop body without current_content = [] at a sub-heading.
ExtractStep_KeepContentAtSubHeading(srv, st, b) ==
    IF b.tag = "p"
    THEN LET text == Strip(b.text)
         IN  IF ~Truthy(text) THEN st
             ELSE IF StartsWith(b.style, HEADING_1)
             THEN [index |-> save_current_section(st),
                   current_main_topic |-> text,
                   current_sub_topic |-> << >>,
                   current_content |-> << >>]
             ELSE IF StartsWith(b.style, HEADING)
                     \/ (b.bold /\ Len(text) < ShortBoldLen)
             THEN [st EXCEPT !.index = save_current_section(st),
                             !.current_sub_topic = text]
             ELSE [st EXCEPT !.current_content = Append(@, text)]
    ELSE IF b.tag = "tbl"
    THEN [st EXCEPT !.current_content = Append(@, parse_table_to_markdown(b.rows))]
    ELSE IF b.drawing
    THEN [st EXCEPT !.current_content = Append(@, GraphNote(srv, st))]
    ELSE st

\* The loop body without current_sub_topic = "" at a level-1 heading.
ExtractStep_KeepSubTopicAtHeading1(srv, st, b) ==
    IF b.tag = "p"
    THEN LET text == Strip(b.text)
         IN  IF ~Truthy(text) THEN st
             ELSE IF StartsWith(b.style, HEADING_1)
             THEN [index |-> save_current_section(st),
                   current_main_topic |-> text,
                   current_sub_topic |-> st.current_sub_topic,
                   current_content |-> << >>]
             ELSE IF StartsWith(b.style, HEADING)
                     \/ (b.bold /\ Len(text) < ShortBoldLen)
             THEN [st EXCEPT !.index = save_current_section(st),
                             !.current_sub_topic = text,
                             !.current_content = << >>]
             ELSE [st EXCEPT !.current_content = Append(@, text)]
    ELSE IF b.tag = "tbl"
    THEN [st EXCEPT !.current_content = Append(@, parse_table_to_markdown(b.rows))]
    ELSE IF b.drawing
    THEN [st EXCEPT !.current_content = Append(@, GraphNote(srv, st))]
    ELSE st

\* One iteration of the loop over doc.element.body.iterchildren().
ExtractStep(srv, st, b) ==
    IF b.tag = "p"
    THEN LET text == Strip(b.text)
         IN  IF ~Truthy(text) THEN st
             ELSE IF StartsWith(b.style, HEADING_1)
             THEN [index |-> save_current_section(st),
                   current_main_topic |-> text,
                   current_sub_topic |-> << >>,
                   current_content |-> << >>]
             ELSE IF StartsWith(b.style, HEADING)
                     \/ (b.bold /\ Len(text) < ShortBoldLen)
             THEN [st EXCEPT !.index = save_current_section(st),
                             !.current_sub_topic = text,
                             !.current_content = << >>]
             ELSE [st EXCEPT !.current_content = Append(@, text)]
    ELSE IF b.tag = "tbl"
    THEN [st EXCEPT !.current_content = Append(@, parse_table_to_markdown(b.rows))]
    ELSE IF b.drawing
    THEN [st EXCEPT !.current_content = Append(@, GraphNote(srv, st))]
    ELSE st

RECURSIVE ExtractLoop(_, _, _, _)
ExtractLoop(srv, st, blocks, i) ==
    IF i > Len(blocks) THEN st
    ELSE ExtractLoop(srv, ExtractStep(srv, st, blocks[i]), blocks, i + 1)

\* The extraction without the flush after the loop.
ExtractSections_NoFinalFlush(srv, blocks) ==
    ExtractLoop(srv, ExtractInit, blocks, 1).index

\* The index a complete parse of the blocks yields (lines 38-88).
ExtractSections(srv, blocks) ==
    save_current_section(ExtractLoop(srv, ExtractInit, blocks, 1))

(* ------------------------------------------------------------------------ *)
(* Documents the source file is given                                       *)
(* ------------------------------------------------------------------------ *)

StyleHeading1 == <<"H", "e", "a", "d", "i", "n", "g", " ", "1">>
StyleHeading2 == <<"H", "e", "a", "d", "i", "n", "g", " ", "2">>
StyleNormal == <<"N", "o", "r", "m", "a", "l">>

H1(t) == Block("p", t, StyleHeading1, FALSE, << >>, FALSE)
H2(t) == Block("p", t, StyleHeading2, FALSE, << >>, FALSE)
P(t) == Block("p", t, StyleNormal, FALSE, << >>, FALSE)

T_limits == <<"G", "A", "4", " ", "L", "i", "m", "i", "t", "s">>
T_restrictions == <<"C", "o", "o", "k", "i", "e", " ", "R", "E", "S", "T", "R", "I", "C", "T", "I", "O", "N", "S">>
T_both == <<"L", "i", "m", "i", "t", "s", " ", "a", "n", "d", " ", "R", "e", "s", "t", "r", "i", "c", "t", "i", "o", "n", "s">>
T_choose == <<"H", "o", "w", " ", "t", "o", " ", "C", "h", "o", "o", "s", "e">>
T_discrepancies == <<"D", "i", "s", "c", "r", "e", "p", "a", "n", "c", "i", "e", "s">>
T_dimensions == <<"D", "i", "m", "e", "n", "s", "i", "o", "n", "s", " ", "a", "n", "d", " ", "M", "e", "t", "r", "i", "c", "s">>

\* A playbook without any block.
DocEmpty == << >>

\* Sections under the main topics the filtered tools look for; the second and
\* third share their content, the last carries both compliance terms.
DocMixed ==
    <<H1(T_dimensions), P(<<"d">>),
      H1(T_choose), P(<<"x">>),
      H1(T_discrepancies), H2(<<"S">>), P(<<" ", "x">>),
      H1(T_both), P(<<"q">>)>>

\* Three sections under a "limits" topic and three under a "restrictions" one.
DocSix ==
    <<H1(T_limits), P(<<"a">>), H1(T_limits), P(<<"b">>), H1(T_limits), P(<<"c">>),
      H1(T_restrictions), P(<<"d">>), H1(T_restrictions), P(<<"e">>),
      H1(T_restrictions), P(<<"f">>)>>

DocLib == {DocEmpty, DocMixed, DocSix}

Servers == {"md", "json"}

(* ------------------------------------------------------------------------ *)
(* Knowledge index cache: build_knowledge_index                             *)
(* ------------------------------------------------------------------------ *)

\* _last_mtime = None
NoMtime == 0

\* _knowledge_index = None
NoIndex == [isNone |-> TRUE, id |-> 0, secs |-> << >>, site |-> "none"]

\* A list object: its identity, its elements, and the line that made it:
\* "return []" (line 27), "_knowledge_index = []" (line 35) or "index = []"
\* (line 38), the last one filled by the loop.
ListObj(id, secs, site) == [isNone |-> FALSE, id |-> id, secs |-> secs, site |-> site]

\* The identity a new object gets: one no live object has.
NewId(live) == CHOOSE i \in 1..(Cardinality(live) + 1) : i \notin live

\* The state build_knowledge_index reads and writes.
CacheState == [exists |-> docExists, readable |-> docReadable, mtime |-> docMtime,
               blocks |-> docBlocks, ki |-> knowledge_index, lm |-> last_mtime]

\* The test of line 31 with the None test the wrong way round.
CacheValid_NoneTestInverted(ki, lm, mtime) == ki.isNone /\ lm = mtime

\* The cached index is used when it is set and the stored timestamp is the
\* document's (line 31).
CacheValid(ki, lm, mtime) == ~ki.isNone /\ lm = mtime

\* build_knowledge_index answering a missing document from the cache.
build_knowledge_index_CacheWhenMissing(srv, c, held) ==
    LET live == held \cup (IF c.ki.isNone THEN {} ELSE {c.ki.id})
        fresh == NewId(live)
        fresh2 == NewId(live \cup {fresh})
    IN  IF ~c.exists /\ ~c.ki.isNone
        THEN [how |-> "missing", ret |-> c.ki, parsed |-> FALSE,
              ki |-> c.ki, lm |-> c.lm]
        ELSE IF ~c.exists
        THEN [how |-> "missing", ret |-> ListObj(fresh, << >>, "line27"),
              parsed |-> FALSE, ki |-> c.ki, lm |-> c.lm]
        ELSE IF CacheValid(c.ki, c.lm, c.mtime)
        THEN [how |-> "hit", ret |-> c.ki, parsed |-> FALSE,
              ki |-> c.ki, lm |-> c.lm]
        ELSE IF ~c.readable
        THEN [how |-> "raise", ret |-> NoIndex, parsed |-> TRUE,
              ki |-> ListObj(fresh, << >>, "line35"), lm |-> c.mtime]
        ELSE LET index == ListObj(fresh2, ExtractSections(srv, c.blocks), "line38")
             IN  [how |-> "rebuilt", ret |-> index, parsed |-> TRUE,
                  ki |-> index, lm |-> c.mtime]

\* build_knowledge_index clearing the cache when the document is missing.
build_knowledge_index_ClearWhenMissing(srv, c, held) ==
    LET live == held \cup (IF c.ki.isNone THEN {} ELSE {c.ki.id})
        fresh == NewId(live)
        fresh2 == NewId(live \cup {fresh})
    IN  IF ~c.exists
        THEN [how |-> "missing", ret |-> ListObj(fresh, << >>, "line27"), parsed |-> FALSE,
              ki |-> NoIndex, lm |-> NoMtime]
        ELSE IF CacheValid(c.ki, c.lm, c.mtime)
        THEN [how |-> "hit", ret |-> c.ki, parsed |-> FALSE,
              ki |-> c.ki, lm |-> c.lm]
        ELSE IF ~c.readable
        THEN [how |-> "raise", ret |-> NoIndex, parsed |-> TRUE,
              ki |-> ListObj(fresh, << >>, "line35"), lm |-> c.mtime]
        ELSE LET index == ListObj(fresh2, ExtractSections(srv, c.blocks), "line38")
             IN  [how |-> "rebuilt", ret |-> index, parsed |-> TRUE,
                  ki |-> index, lm |-> c.mtime]

\* One call of build_knowledge_index in state c, with `held` the identities
\* of the objects its callers still hold.  how: "missing" (line 27), "hit"
\* (line 32), "raise" (Document(DOC_PATH) failed, line 37) or "rebuilt"
\* (line 89); ret: the object returned; parsed: Document(DOC_PATH) was called;
\* ki, lm: the globals after the call.
build_knowledge_index(srv, c, held) ==
    LET live == held \cup (IF c.ki.isNone THEN {} ELSE {c.ki.id})
        fresh == NewId(live)
        fresh2 == NewId(live \cup {fresh})
    IN  IF ~c.exists
        THEN [how |-> "missing", ret |-> ListObj(fresh, << >>, "line27"), parsed |-> FALSE,
              ki |-> c.ki, lm |-> c.lm]
        ELSE IF CacheValid(c.ki, c.lm, c.mtime)
        THEN [how |-> "hit", ret |-> c.ki, parsed |-> FALSE,
              ki |-> c.ki, lm |-> c.lm]
        ELSE IF ~c.readable
        THEN [how |-> "raise", ret |-> NoIndex, parsed |-> TRUE,
              ki |-> ListObj(fresh, << >>, "line35"), lm |-> c.mtime]
        ELSE LET index == ListObj(fresh2, ExtractSections(srv, c.blocks), "line38")
             IN  [how |-> "rebuilt", ret |-> index, parsed |-> TRUE,
                  ki |-> index, lm |-> c.mtime]

\* The cache state a call leaves behind.
After(c, b) == [c EXCEPT !.ki = b.ki, !.lm = b.lm]

(* ------------------------------------------------------------------------ *)
(* Fuzzy ranker: smart_search                                               *)
(* ------------------------------------------------------------------------ *)

\* Optional[str]: << >> is None, <<s>> is the string s.
NoFilter == << >>
Some(s) == <<s>>

\* Values fuzz.WRatio and fuzz.partial_ratio take (both range over 0..100).
\* With these the float 0.7 * t + 0.3 * c is 39.4, 40.0, 40.1 or 40.7, each the
\* exact sum, so the tenths below order and compare as the floats do.
TitleScores == {40, 41}
ContentScores == {38, 40}

\* A query, as the ranker sees it: fuzz.WRatio(query, sub_topic) for the
\* sub-topics and fuzz.partial_ratio(query.lower(), content.lower()) for the
\* lower-cased contents of the sections it scores.
Queries(secs) ==
    LET subs == {secs[i].sub_topic : i \in 1..Len(secs)}
        conts == {Lower(secs[i].content) : i \in 1..Len(secs)}
    IN  {[t |-> ts, c |-> cs] : ts \in [subs -> TitleScores],
                                cs \in [conts -> ContentScores]}

\* The queries that score every sub-topic alike and every content alike.
UniformQueries(secs) ==
    LET subs == {secs[i].sub_topic : i \in 1..Len(secs)}
        conts == {Lower(secs[i].content) : i \in 1..Len(secs)}
    IN  {[t |-> [s \in subs |-> a], c |-> [x \in conts |-> b]] :
            a \in TitleScores, b \in ContentScores}

\* final_score (line 107), in tenths.
final_score(q, item) ==
    q.t[item.sub_topic] * TitleWeight + q.c[Lower(item.content)] * ContentWeight

\* The filter step comparing without lower().
FilteredOut_CaseSensitive(main_filter, item) ==
    /\ main_filter # NoFilter
    /\ Truthy(main_filter[1])
    /\ ~Contains(item.main_topic, main_filter[1])

\* The filter step (line 101): the section is skipped.
FilteredOut(main_filter, item) ==
    /\ main_filter # NoFilter
    /\ Truthy(main_filter[1])
    /\ ~Contains(Lower(item.main_topic), Lower(main_filter[1]))

\* The floor with >= for >.
AboveFloor_Inclusive(score) == score >= RelevanceFloor * (TitleWeight + ContentWeight)

\* The relevance floor (line 109).
AboveFloor(score) == score > RelevanceFloor * (TitleWeight + ContentWeight)

Scored(item, score) ==
    [main_topic |-> item.main_topic, sub_topic |-> item.sub_topic,
     content |-> item.content, search_key |-> item.search_key, score |-> score]

RECURSIVE Candidates(_, _, _, _)
\* The loop over kb (lines 100-110): the results list, in index order.
Candidates(kb, q, main_filter, i) ==
    IF i > Len(kb) THEN << >>
    ELSE LET item == kb[i]
             rest == Candidates(kb, q, main_filter, i + 1)
         IN  IF FilteredOut(main_filter, item) THEN rest
             ELSE IF AboveFloor(final_score(q, item))
             THEN <<Scored(item, final_score(q, item))>> \o rest
             ELSE rest

\* x goes in front of the elements of its own score: an unstable sort.
InsertDesc_Unstable(sorted, x) ==
    LET n == Cardinality({i \in 1..Len(sorted) : sorted[i].score > x.score})
    IN  SubSeq(sorted, 1, n) \o <<x>> \o SubSeq(sorted, n + 1, Len(sorted))

\* x goes behind every element whose score is not lower than its own.
InsertDesc(sorted, x) ==
    LET n == Cardinality({i \in 1..Len(sorted) : sorted[i].score >= x.score})
    IN  SubSeq(sorted, 1, n) \o <<x>> \o SubSeq(sorted, n + 1, Len(sorted))

RECURSIVE SortedDesc(_)
\* sorted(results, key=score, reverse=True): stable, highest score first.
SortedDesc(results) ==
    IF results = << >> THEN << >>
    ELSE InsertDesc(SortedDesc(SubSeq(results, 1, Len(results) - 1)),
                    results[Len(results)])

Min(a, b) == IF a < b THEN a ELSE b
Max(a, b) == IF a > b THEN a ELSE b

\* s[:k]
SliceTo(s, k) ==
    IF k >= 0 THEN SubSeq(s, 1, Min(k, Len(s)))
    ELSE SubSeq(s, 1, Max(Len(s) + k, 0))

\* smart_search over the index kb that build_knowledge_index returned.
smart_search(kb, q, main_filter, top_k) ==
    SliceTo(SortedDesc(Candidates(kb, q, main_filter, 1)), top_k)

DefaultTopK(srv) == IF srv = "md" THEN MdDefaultTopK ELSE JsonDefaultTopK

\* The loop storing the score in the section itself (item["score"] = ...).
ItemAfterScoring_ScoreStoredInItem(item, score) == Scored(item, score)

\* The section of kb after it was scored (line 110): {**item, "score": ...}
\* is a new dict, item keeps its keys and values.
ItemAfterScoring(item, score) == item

\* The elements of the list kb after the loop of smart_search (lines 100-110):
\* a filtered section is skipped, the others are scored; sorted() and the
\* slice (line 112) make new lists.
SearchedKb(kb, q, main_filter) ==
    [i \in 1..Len(kb) |->
        IF FilteredOut(main_filter, kb[i]) THEN kb[i]
        ELSE ItemAfterScoring(kb[i], final_score(q, kb[i]))]

(* ------------------------------------------------------------------------ *)
(* Result presenter and tools                                               *)
(* ------------------------------------------------------------------------ *)

F_restrictions == <<"r", "e", "s", "t", "r", "i", "c", "t", "i", "o", "n", "s">>
F_limits == <<"l", "i", "m", "i", "t", "s">>
F_choose == <<"c", "h", "o", "o", "s", "e">>
F_discrepancies == <<"d", "i", "s", "c", "r", "e", "p", "a", "n", "c", "i", "e", "s">>
F_dimensions == <<"D", "i", "m", "e", "n", "s", "i", "o", "n", "s", " ", "a", "n", "d", " ", "M", "e", "t", "r", "i", "c", "s">>
TRUNCATION_MARKER == <<"\n", ".", ".", ".", "(", "c", "o", "n", "t", "e", "n", "t", " ", "t", "r", "u", "n", "c", "a", "t", "e", "d", " ", "d", "u", "e", " ", "t", "o", " ", "l", "e", "n", "g", "t", "h", ")", ".", ".", ".">>

\* The three md_lines one result adds (lines 126-135).
MdSectionLines(i, r) ==
    <<[kind |-> "heading", n |-> i, main_topic |-> r.main_topic,
       sub_topic |-> r.sub_topic],
      [kind |-> "content",
       text |-> IF Len(r.content) > TruncateAt
                THEN SubSeq(r.content, 1, TruncateAt) \o TRUNCATION_MARKER
                ELSE r.content],
      [kind |-> "rule"]>>

RECURSIVE MdLines(_, _)
MdLines(results, i) ==
    IF i > Len(results) THEN << >>
    ELSE MdSectionLines(i, results[i]) \o MdLines(results, i + 1)

\* The markdown text, as its lines.
format_results_as_markdown(results, error_msg) ==
    IF results = << >>
    THEN [status |-> error_msg, lines |-> << >>]
    ELSE [status |-> "results", lines |-> <<[kind |-> "title"]>> \o MdLines(results, 1)]

RECURSIVE DedupByContent(_)
\* list({r['content']: r for r in results}.values()): a content keeps the
\* place of its first result and the value of its last.
DedupByContent(results) ==
    IF results = << >> THEN << >>
    ELSE LET r == results[1]
             same == {i \in 1..Len(results) : results[i].content = r.content}
             last == CHOOSE i \in same : \A j \in same : j <= i
             others == SelectSeq(Tail(results), LAMBDA x : x.content # r.content)
         IN  <<results[last]>> \o DedupByContent(others)

\* The "sections" list of a JSON response (r["main_topic"], r["sub_topic"],
\* r["content"] for r in results[:5]).
JsonSections(results) ==
    LET shown == SliceTo(results, JsonSectionCap)
    IN  [i \in 1..Len(shown) |->
            [main_topic |-> shown[i].main_topic, sub_topic |-> shown[i].sub_topic,
             content |-> shown[i].content]]

JsonResponse(results, message) ==
    IF results = << >>
    THEN [status |-> message, sections |-> << >>]
    ELSE [status |-> "results", sections |-> JsonSections(results)]

\* get_metric_definition of the JSON server: context and text of results[:1].
JsonDefinition(results) ==
    IF results = << >>
    THEN [status |-> "Definition not found in the glossary.", sections |-> << >>]
    ELSE [status |-> "results",
          sections |-> <<[context |-> results[1].sub_topic,
                          text |-> results[1].content]>>]

\* The messages of the tools.
NoSolution(srv) ==
    IF srv = "md" THEN "No matching solution found in playbook."
    ELSE "No matching solution found."

\* What a tool makes of the results of its searches.
Present(srv, tool, results) ==
    IF tool = "solve_analytics_issue"
    THEN IF srv = "md" THEN format_results_as_markdown(results, NoSolution(srv))
         ELSE JsonResponse(results, NoSolution(srv))
    ELSE IF tool = "check_limits_and_compliance"
    THEN IF srv = "md"
         THEN format_results_as_markdown(DedupByContent(results),
                  "No compliance or limit information found.")
         ELSE JsonResponse(results, "No compliance or limit information found.")
    ELSE IF tool = "compare_platform_strategy"
    THEN IF srv = "md"
         THEN format_results_as_markdown(DedupByContent(results),
                  "No strategic comparison found.")
         ELSE JsonResponse(results, "No strategic comparison found.")
    ELSE IF srv = "md"
         THEN format_results_as_markdown(SliceTo(results, 1),
                  "Definition not found in the glossary.")
         ELSE JsonDefinition(results)

\* The two main_filter terms of a filtered-search tool.
FilterTerms(tool) ==
    IF tool = "check_limits_and_compliance" THEN <<F_restrictions, F_limits>>
    ELSE <<F_choose, F_discrepancies>>

\* dict insertion order: the main topics of kb, each at its first place.
RECURSIVE MainTopics(_)
MainTopics(kb) ==
    IF kb = << >> THEN << >>
    ELSE <<kb[1].main_topic>>
         \o MainTopics(SelectSeq(Tail(kb), LAMBDA x : x.main_topic # kb[1].main_topic))

\* The characters of the playbooks here, by code point.
CodePoints ==
    <<"\t", "\n", " ", "(", ")", "-", ".",
      "0", "1", "2", "3", "4", "5", "6", "7", "8", "9", ":", ">",
      "A", "B", "C", "D", "E", "F", "G", "H", "I", "J", "K", "L", "M",
      "N", "O", "P", "Q", "R", "S", "T", "U", "V", "W", "X", "Y", "Z", "[", "]",
      "a", "b", "c", "d", "e", "f", "g", "h", "i", "j", "k", "l", "m",
      "n", "o", "p", "q", "r", "s", "t", "u", "v", "w", "x", "y", "z", "|">>

CodePoint(c) == CHOOSE i \in 1..Len(CodePoints) : CodePoints[i] = c

\* a < b for str
StrLess(a, b) ==
    \E k \in 1..(Min(Len(a), Len(b)) + 1) :
        /\ SubSeq(a, 1, k - 1) = SubSeq(b, 1, k - 1)
        /\ IF k > Len(a) THEN k <= Len(b)
           ELSE k <= Len(b) /\ CodePoint(a[k]) < CodePoint(b[k])

\* sorted(list(set)) of strings
SortedStrings(S) ==
    [r \in 1..Cardinality(S) |->
        CHOOSE x \in S : Cardinality({y \in S : StrLess(y, x)}) = r - 1]

\* list(set): the elements, each once, in the order the set yields them.
ListsOfSet(S) ==
    {f \in [1..Cardinality(S) -> S] : \A x \in S : \E i \in 1..Cardinality(S) : f[i] = x}

\* subs without set(): every sub-topic as often as it has sections.
Overviews_NoSet(srv, kb) ==
    LET mains == MainTopics(kb)
        subsOf(m) == SelectSeq(kb, LAMBDA x : x.main_topic = m)
    IN  {[status |-> "overview",
          sections |-> [i \in 1..Len(mains) |->
             [main_topic |-> mains[i],
              sub_topics |-> [k \in 1..Len(subsOf(mains[i])) |->
                                 subsOf(mains[i])[k].sub_topic]]]]}

\* get_comprehensive_overview: per main topic the sub-topics listed.  The
\* markdown server sorts them and leaves out a sub-topic equal to its main
\* topic; the JSON server lists them in the order of the set.
Overviews(srv, kb) ==
    LET mains == MainTopics(kb)
        subsOf(m) == {kb[i].sub_topic : i \in {j \in 1..Len(kb) : kb[j].main_topic = m}}
        sorted(m) == SortedStrings(subsOf(m))
        orders == {g \in [1..Len(mains) -> UNION {ListsOfSet(subsOf(mains[i])) :
                                                     i \in 1..Len(mains)}] :
                      \A i \in 1..Len(mains) : g[i] \in ListsOfSet(subsOf(mains[i]))}
    IN  IF srv = "md"
        THEN {[status |-> "overview",
               sections |-> [i \in 1..Len(mains) |->
                  [main_topic |-> mains[i],
                   sub_topics |-> SelectSeq(sorted(mains[i]),
                                    LAMBDA x : Truthy(x) /\ x # mains[i])]]]}
        ELSE {[status |-> "overview",
               sections |-> [i \in 1..Len(mains) |->
                  [main_topic |-> mains[i], sub_topics |-> g[i]]]] : g \in orders}

(* ------------------------------------------------------------------------ *)
(* The server: one request at a time                                        *)
(* ------------------------------------------------------------------------ *)

NoResponse == [op |-> "none", outcome |-> "none", calls |-> << >>,
               out |-> [status |-> "none"]]

NoQuery == [t |-> << >>, c |-> << >>]

\* One call of build_knowledge_index by a handler: the globals it found (pre)
\* what it did (b), and the cached index as the call left it (ki).
BuildRun(c, b) ==
    [kind |-> "build", pre |-> [ki |-> c.ki, lm |-> c.lm], b |-> b,
     q |-> NoQuery, main_filter |-> NoFilter, top_k |-> 0, result |-> << >>,
     ki |-> b.ki]

\* The cached index after smart_search ran on what its build_knowledge_index
\* call b returned: the loop read the cached list itself when b returned it.
SearchedCache(b, q, main_filter) ==
    IF b.how # "raise" /\ ~b.ki.isNone /\ b.ret.id = b.ki.id
    THEN [b.ki EXCEPT !.secs = SearchedKb(b.ret.secs, q, main_filter)]
    ELSE b.ki

\* One call of smart_search by a handler: b is its build_knowledge_index call
\* (line 97); unless that raised, the rest follows.
SearchRun(c, b, q, main_filter, top_k) ==
    [kind |-> "search", pre |-> [ki |-> c.ki, lm |-> c.lm], b |-> b,
     q |-> q, main_filter |-> main_filter, top_k |-> top_k,
     result |-> IF b.how = "raise" THEN << >>
                ELSE smart_search(b.ret.secs, q, main_filter, top_k),
     ki |-> SearchedCache(b, q, main_filter)]

\* The build_knowledge_index call of a run, with the cached index as the
\* whole run left it.
Left(run) == [run.b EXCEPT !.ki = run.ki]

Raised(run) == run.b.how = "raise"

\* The sections of kb a search with one of the filters scores.
Passing(kb, filters) ==
    SelectSeq(kb, LAMBDA item : \E f \in filters : ~FilteredOut(f, item))

\* The identities of the index objects still referred to: the one the
\* previous call returned.
Held == IF prevRet.id = 0 THEN {} ELSE {prevRet.id}

\* The first build_knowledge_index call of a handler, and the one that
\* follows a call b in the same handler.
FirstBuild == build_knowledge_index(server, CacheState, Held)
NextBuild(b) ==
    build_knowledge_index(server, After(CacheState, b), Held \cup {b.ret.id})

\* The handler ends: its response, the globals as the last call left them.
Respond(op, calls, out) ==
    LET last == calls[Len(calls)]
    IN  /\ response' = [op |-> op,
                        outcome |-> IF Raised(last) THEN "raise" ELSE "return",
                        calls |-> calls,
                        out |-> IF Raised(last) THEN [status |-> "raise"] ELSE out]
        /\ knowledge_index' = last.ki
        /\ last_mtime' = last.b.lm
        /\ UNCHANGED <<server, docExists, docReadable, docMtime, docBlocks, prevRet,
                       tpc, tmtime, tlocal, tret>>

Idle == response.op = "none"

TopKs == (0 - 1)..MaxTopK

SearchFilters == {NoFilter, Some(<< >>), Some(F_limits),
                  Some(<<"R", "e", "s", "T", "R", "I", "C", "T">>)}

\* main() or any other direct caller of build_knowledge_index.
BuildKnowledgeIndex ==
    /\ Idle
    /\ Respond("build_knowledge_index", <<BuildRun(CacheState, FirstBuild)>>,
               [status |-> "index"])

\* A direct call smart_search(query, main_filter, top_k).
SmartSearch ==
    /\ Idle
    /\ LET c == CacheState
           b == FirstBuild
       IN  \E main_filter \in SearchFilters :
             \E q \in Queries(b.ret.secs), top_k \in TopKs :
                Respond("smart_search", <<SearchRun(c, b, q, main_filter, top_k)>>,
                        [status |-> "list"])

SolveAnalyticsIssue ==
    /\ Idle
    /\ LET c == CacheState
           b == FirstBuild
       IN  \E q \in UniformQueries(b.ret.secs) :
             LET r == SearchRun(c, b, q, NoFilter, DefaultTopK(server))
             IN  Respond("solve_analytics_issue", <<r>>,
                         Present(server, "solve_analytics_issue", r.result))

\* The filtered tools presenting the results of their second search only.
FilteredTool_SecondSearchOnly(tool) ==
    /\ Idle
    /\ LET terms == FilterTerms(tool)
           c == CacheState
           b1 == FirstBuild
       IN  \E q \in UniformQueries(Passing(b1.ret.secs,
                                           {Some(terms[1]), Some(terms[2])})) :
             \E r1 \in {SearchRun(c, b1, q, Some(terms[1]), DefaultTopK(server))} :
             LET b2 == NextBuild(Left(r1))
                 r2 == SearchRun(After(c, Left(r1)), b2, q, Some(terms[2]),
                                 DefaultTopK(server))
             IN  IF Raised(r1)
                 THEN Respond(tool, <<r1>>, [status |-> "raise"])
                 ELSE Respond(tool, <<r1, r2>>, Present(server, tool, r2.result))

\* check_limits_and_compliance and compare_platform_strategy: two searches
\* of the same query, their results concatenated.
FilteredTool(tool) ==
    /\ Idle
    /\ LET terms == FilterTerms(tool)
           c == CacheState
           b1 == FirstBuild
       IN  \E q \in UniformQueries(Passing(b1.ret.secs,
                                           {Some(terms[1]), Some(terms[2])})) :
             \E r1 \in {SearchRun(c, b1, q, Some(terms[1]), DefaultTopK(server))} :
             LET b2 == NextBuild(Left(r1))
                 r2 == SearchRun(After(c, Left(r1)), b2, q, Some(terms[2]),
                                 DefaultTopK(server))
             IN  IF Raised(r1)
                 THEN Respond(tool, <<r1>>, [status |-> "raise"])
                 ELSE Respond(tool, <<r1, r2>>,
                              Present(server, tool, r1.result \o r2.result))

CheckLimitsAndCompliance == FilteredTool("check_limits_and_compliance")

ComparePlatformStrategy == FilteredTool("compare_platform_strategy")

\* get_metric_definition: the glossary first, then the whole playbook with
\* the query term + " definition".
GetMetricDefinition ==
    /\ Idle
    /\ LET c == CacheState
           b1 == FirstBuild
       IN  \E q \in UniformQueries(Passing(b1.ret.secs, {Some(F_dimensions)})) :
             \E r1 \in {SearchRun(c, b1, q, Some(F_dimensions), DefaultTopK(server))} :
             LET b2 == NextBuild(Left(r1))
             IN  IF Raised(r1) \/ r1.result # << >>
                 THEN Respond("get_metric_definition", <<r1>>,
                              Present(server, "get_metric_definition", r1.result))
                 ELSE \E q2 \in UniformQueries(b2.ret.secs) :
                        LET r2 == SearchRun(After(c, Left(r1)), b2, q2, NoFilter,
                                            DefaultTopK(server))
                        IN  Respond("get_metric_definition", <<r1, r2>>,
                                    Present(server, "get_metric_definition",
                                            r2.result))

GetComprehensiveOverview ==
    /\ Idle
    /\ LET r == BuildRun(CacheState, FirstBuild)
       IN  \E out \in Overviews(server, r.b.ret.secs) :
              Respond("get_comprehensive_overview", <<r>>, out)

\* The response leaves the server; the caller keeps the index object it got.
Deliver ==
    /\ ~Idle
    /\ response' = NoResponse
    /\ prevRet' = LET last == response.calls[Len(response.calls)]
                  IN  [id |-> last.b.ret.id, how |-> last.b.how]
    /\ UNCHANGED <<server, docExists, docReadable, docMtime, docBlocks,
                   knowledge_index, last_mtime, tpc, tmtime, tlocal, tret>>

(* The document, changed from outside *)

\* The playbook is saved: new content, a new modification timestamp.
DocWrite ==
    /\ Idle /\ docExists /\ docMtime < MaxMtime
    /\ \E d \in DocLib :
         /\ docBlocks' = d
         /\ docMtime' = docMtime + 1
    /\ UNCHANGED <<server, docExists, docReadable, knowledge_index, last_mtime,
                   prevRet, response, tpc, tmtime, tlocal, tret>>

\* The file is moved away, and moved back as it was.
DocMove ==
    /\ Idle
    /\ docExists' = ~docExists
    /\ UNCHANGED <<server, docReadable, docMtime, docBlocks, knowledge_index,
                   last_mtime, prevRet, response, tpc, tmtime, tlocal, tret>>

\* The file becomes unreadable for Document(DOC_PATH) (locked, no permission),
\* or readable again; its modification timestamp stays.
DocLock ==
    /\ Idle
    /\ docReadable' = ~docReadable
    /\ UNCHANGED <<server, docExists, docMtime, docBlocks, knowledge_index,
                   last_mtime, prevRet, response, tpc, tmtime, tlocal, tret>>

Threads == {1, 2}

NoThreads == [t \in Threads |-> "idle"]

Init ==
    /\ server \in Servers
    /\ docExists \in BOOLEAN
    /\ docReadable \in BOOLEAN
    /\ docMtime = 1
    /\ docBlocks \in DocLib
    /\ knowledge_index = NoIndex
    /\ last_mtime = NoMtime
    /\ prevRet = [id |-> 0, how |-> "none"]
    /\ response = NoResponse
    /\ tpc = NoThreads
    /\ tmtime = [t \in Threads |-> NoMtime]
    /\ tlocal = [t \in Threads |-> NoIndex]
    /\ tret = [t \in Threads |-> NoIndex]

Next ==
    \/ BuildKnowledgeIndex
    \/ SolveAnalyticsIssue
    \/ CheckLimitsAndCompliance
    \/ ComparePlatformStrategy
    \/ GetMetricDefinition
    \/ GetComprehensiveOverview
    \/ Deliver
    \/ DocWrite
    \/ DocMove
    \/ DocLock

\* The server and its document, the tools asked queries that score all
\* sections alike.
Spec == Init /\ [][Next]_vars

(* The ranker by itself: direct smart_search calls on a playbook that stays *)

InitSearch ==
    /\ Init
    /\ docExists /\ docReadable

NextSearch ==
    \/ SmartSearch
    \/ Deliver

SpecSearch == InitSearch /\ [][NextSearch]_vars

(* ------------------------------------------------------------------------ *)
(* build_knowledge_index called from several threads: the statements of     *)
(* lines 25-89 one by one, nothing keeping two callers apart                *)
(* ------------------------------------------------------------------------ *)

\* The identities of the list objects some thread or the global refers to.
LiveIds ==
    {knowledge_index.id} \cup {tlocal[t].id : t \in Threads}
    \cup {tret[t].id : t \in Threads}

Goto(t, pc) == tpc' = [tpc EXCEPT ![t] = pc]

DocAndServer == <<server, docExists, docReadable, docMtime, docBlocks, prevRet, response>>

\* A caller enters build_knowledge_index.
T_Call(t) ==
    /\ tpc[t] = "idle"
    /\ Goto(t, "line25")
    /\ tmtime' = [tmtime EXCEPT ![t] = NoMtime]
    /\ tlocal' = [tlocal EXCEPT ![t] = NoIndex]
    /\ tret' = [tret EXCEPT ![t] = NoIndex]
    /\ UNCHANGED <<DocAndServer, knowledge_index, last_mtime>>

\* if not os.path.exists(DOC_PATH): return []
T_Exists(t) ==
    /\ tpc[t] = "line25"
    /\ IF docExists
       THEN Goto(t, "line30") /\ UNCHANGED tret
       ELSE /\ Goto(t, "returned")
            /\ tret' = [tret EXCEPT ![t] = ListObj(NewId(LiveIds), << >>, "line27")]
    /\ UNCHANGED <<DocAndServer, knowledge_index, last_mtime, tmtime, tlocal>>

\* mtime = os.path.getmtime(DOC_PATH)
T_GetMtime(t) ==
    /\ tpc[t] = "line30"
    /\ IF docExists
       THEN Goto(t, "line31") /\ tmtime' = [tmtime EXCEPT ![t] = docMtime]
       ELSE Goto(t, "raised") /\ UNCHANGED tmtime
    /\ UNCHANGED <<DocAndServer, knowledge_index, last_mtime, tlocal, tret>>

\* if _knowledge_index is not None and _last_mtime == mtime: return _knowledge_index
T_Check(t) ==
    /\ tpc[t] = "line31"
    /\ IF CacheValid(knowledge_index, last_mtime, tmtime[t])
       THEN Goto(t, "returned") /\ tret' = [tret EXCEPT ![t] = knowledge_index]
       ELSE Goto(t, "line34") /\ UNCHANGED tret
    /\ UNCHANGED <<DocAndServer, knowledge_index, last_mtime, tmtime, tlocal>>

\* _last_mtime = mtime
T_SetMtime(t) ==
    /\ tpc[t] = "line34"
    /\ last_mtime' = tmtime[t]
    /\ Goto(t, "line35")
    /\ UNCHANGED <<DocAndServer, knowledge_index, tmtime, tlocal, tret>>

\* _knowledge_index = []
T_SetEmpty(t) ==
    /\ tpc[t] = "line35"
    /\ knowledge_index' = ListObj(NewId(LiveIds), << >>, "line35")
    /\ Goto(t, "line37")
    /\ UNCHANGED <<DocAndServer, last_mtime, tmtime, tlocal, tret>>

\* doc = Document(DOC_PATH) and the loop that fills the local index
T_Parse(t) ==
    /\ tpc[t] = "line37"
    /\ IF docExists /\ docReadable
       THEN /\ tlocal' = [tlocal EXCEPT ![t] =
                  ListObj(NewId(LiveIds), ExtractSections(server, docBlocks), "line38")]
            /\ Goto(t, "line88")
       ELSE Goto(t, "raised") /\ UNCHANGED tlocal
    /\ UNCHANGED <<DocAndServer, knowledge_index, last_mtime, tmtime, tret>>

\* _knowledge_index = index
T_Swap(t) ==
    /\ tpc[t] = "line88"
    /\ knowledge_index' = tlocal[t]
    /\ Goto(t, "line89")
    /\ UNCHANGED <<DocAndServer, last_mtime, tmtime, tlocal, tret>>

\* return _knowledge_index
T_Return(t) ==
    /\ tpc[t] = "line89"
    /\ tret' = [tret EXCEPT ![t] = knowledge_index]
    /\ Goto(t, "returned")
    /\ UNCHANGED <<DocAndServer, knowledge_index, last_mtime, tmtime, tlocal>>

\* The caller has used what it got (or seen the exception).
T_Done(t) ==
    /\ tpc[t] \in {"returned", "raised"}
    /\ Goto(t, "idle")
    /\ tmtime' = [tmtime EXCEPT ![t] = NoMtime]
    /\ tlocal' = [tlocal EXCEPT ![t] = NoIndex]
    /\ tret' = [tret EXCEPT ![t] = NoIndex]
    /\ UNCHANGED <<DocAndServer, knowledge_index, last_mtime>>

InitThreads ==
    /\ Init
    /\ server = "md"
    /\ docExists /\ docReadable

NextThreads ==
    \/ \E t \in Threads : T_Call(t)
    \/ \E t \in Threads : T_Exists(t)
    \/ \E t \in Threads : T_GetMtime(t)
    \/ \E t \in Threads : T_Check(t)
    \/ \E t \in Threads : T_SetMtime(t)
    \/ \E t \in Threads : T_SetEmpty(t)
    \/ \E t \in Threads : T_Parse(t)
    \/ \E t \in Threads : T_Swap(t)
    \/ \E t \in Threads : T_Return(t)
    \/ \E t \in Threads : T_Done(t)
    \/ DocWrite

SpecThreads == InitThreads /\ [][NextThreads]_vars

(* ------------------------------------------------------------------------ *)
(* Properties                                                               *)
(* ------------------------------------------------------------------------ *)

Calls == response.calls

CallIds == 1..Len(Calls)

\* The index a complete extraction of the document as it is now yields.
CurrentExtraction == ExtractSections(server, docBlocks)

\* What the call before call i of the response returned, and how.
PrevOf(i) ==
    IF i = 1 THEN prevRet
    ELSE [id |-> Calls[i - 1].b.ret.id, how |-> Calls[i - 1].b.how]

\* Call i found a cached index and the document at the stored timestamp.
FoundValidCache(i) ==
    /\ docExists
    /\ ~Calls[i].pre.ki.isNone
    /\ Calls[i].pre.lm = docMtime

\* C1: whenever the cached index is set, it is the complete extraction of the
\* document version of the stored timestamp, and a call made while the
\* document exists returns the extraction of the document as it is; also
\* after a rebuild that was started and did not complete.
C1_CacheIsExtractionOfStoredVersion ==
    /\ (~knowledge_index.isNone /\ last_mtime = docMtime)
          => knowledge_index.secs = CurrentExtraction
    /\ \A i \in CallIds :
          (docExists /\ ~Raised(Calls[i])) => Calls[i].b.ret.secs = CurrentExtraction

\* C2, as claimed: a call that finds a cached index (a completely built one)
\* and the document at the stored timestamp returns, without parsing, the very
\* object the previous call returned.
C2_HitReturnsWhatPreviousCallReturned ==
    \A i \in CallIds :
        (/\ FoundValidCache(i)
         /\ Calls[i].pre.ki.site = "line38"
         /\ PrevOf(i).how \notin {"none", "raise"})
            => /\ ~Calls[i].b.parsed
               /\ Calls[i].b.ret.id = PrevOf(i).id

\* C2, amended: a call that finds a cached index and the document at the
\* stored timestamp returns the cached object itself, without parsing and
\* leaving the globals as they are; it is the object the previous call
\* returned whenever that call returned the cached index (a hit or a
\* completed rebuild).
C2_HitReturnsCachedObject ==
    \A i \in CallIds :
        FoundValidCache(i)
            => /\ ~Calls[i].b.parsed
               /\ Calls[i].b.ret = Calls[i].pre.ki
               /\ Calls[i].b.ki = Calls[i].pre.ki
               /\ Calls[i].b.lm = Calls[i].pre.lm
               /\ (PrevOf(i).how \in {"hit", "rebuilt"}
                     => Calls[i].b.ret.id = PrevOf(i).id)

\* Two consecutive requests, the second one answered from the cache with the
\* object the first one built.
C2_Witness ==
    /\ response.op = "build_knowledge_index"
    /\ FoundValidCache(1)
    /\ prevRet.how = "rebuilt"
    /\ Calls[1].b.ret.id = prevRet.id
    /\ Calls[1].b.ret.secs # << >>

\* C3: with several callers inside build_knowledge_index at once, no caller
\* receives the intermediate empty list of line 35: what a caller gets is a
\* complete snapshot.
C3_NoCallerGetsIntermediateList ==
    \A t \in Threads : tpc[t] = "returned" => tret[t].site # "line35"

\* C4: while the document exists, readable or not, every operation returns a
\* result; no failure reaches the caller.
C4_NoFailurePropagates ==
    (~Idle /\ docExists) => response.outcome = "return"

\* C5: while no document exists, build_knowledge_index returns an empty
\* sequence without raising, whatever the cache holds, and every search on top
\* of it returns no sections.
C5_MissingDocumentGivesEmpty ==
    (~Idle /\ ~docExists)
        => /\ response.outcome = "return"
           /\ \A i \in CallIds :
                 /\ Calls[i].b.ret.isNone = FALSE
                 /\ Calls[i].b.ret.secs = << >>
                 /\ Calls[i].result = << >>

\* A filtered tool answers without a document while the cache holds sections.
C5_Witness ==
    /\ response.op = "check_limits_and_compliance"
    /\ ~docExists
    /\ Len(Calls) = 2
    /\ Calls[1].pre.ki.secs # << >>
    /\ Calls[1].kind = "search"

(* Direct smart_search calls: the response holds one call, a search *)

IsSearch == response.op = "smart_search" /\ response.outcome = "return"

TheSearch == Calls[1]

TheKb == TheSearch.b.ret.secs

\* 0.7 * title_score + 0.3 * content_score of section i for the query, in tenths.
TenthsOf(i) ==
    7 * TheSearch.q.t[TheKb[i].sub_topic] + 3 * TheSearch.q.c[Lower(TheKb[i].content)]

\* The sections the search scores and keeps: the places in the index.
Kept == {i \in 1..Len(TheKb) :
            /\ ~FilteredOut(TheSearch.main_filter, TheKb[i])
            /\ AboveFloor(final_score(TheSearch.q, TheKb[i]))}

\* The place of i among the places E when ordered by score, highest first,
\* equal scores in index order.
RankIn(E, score(_), i) ==
    1 + Cardinality({j \in E : score(j) > score(i) \/ (score(j) = score(i) /\ j < i)})

\* The first n sections of that ordering of E, with their scores.
Ranking(E, score(_), n) ==
    [r \in 1..n |->
        LET i == CHOOSE j \in E : RankIn(E, score, j) = r
        IN  Scored(TheKb[i], score(i))]

KeptScore(i) == final_score(TheSearch.q, TheKb[i])

ResultIsDescending ==
    \A i, j \in 1..Len(TheSearch.result) :
        i < j => TheSearch.result[i].score >= TheSearch.result[j].score

\* C6, as claimed: for every integer top_k the result has at most top_k
\* sections and is the first top_k of the kept sections ordered by score
\* descending, equal scores in index order.
C6_AtMostTopKForEveryInteger ==
    IsSearch
        => /\ Len(TheSearch.result) <= TheSearch.top_k
           /\ ResultIsDescending
           /\ TheSearch.result
                 = Ranking(Kept, KeptScore,
                           Min(Max(TheSearch.top_k, 0), Cardinality(Kept)))

\* C6, amended: for every top_k >= 0 the result is the first top_k (all, if
\* there are fewer) of the kept sections ordered by score descending, equal
\* scores in index order; for top_k < 0 it is that ordering without its last
\* -top_k sections.
C6_StableTopK ==
    IsSearch
        => LET n == IF TheSearch.top_k >= 0
                    THEN Min(TheSearch.top_k, Cardinality(Kept))
                    ELSE Max(Cardinality(Kept) + TheSearch.top_k, 0)
           IN  /\ TheSearch.result = Ranking(Kept, KeptScore, n)
               /\ ResultIsDescending
               /\ TheSearch.top_k >= 0 => Len(TheSearch.result) <= TheSearch.top_k

\* A search cut to two sections out of more, the two of equal score and
\* different.
C6_Witness ==
    /\ IsSearch
    /\ TheSearch.top_k = 2
    /\ Cardinality(Kept) > 2
    /\ Len(TheSearch.result) = 2
    /\ TheSearch.result[1].score = TheSearch.result[2].score
    /\ TheSearch.result[1].content # TheSearch.result[2].content
    /\ \E i \in Kept : KeptScore(i) > TheSearch.result[1].score - 7

\* The section at place i of the index passes the filter step.
PassesFilter(i) == ~FilteredOut(TheSearch.main_filter, TheKb[i])

\* C7: a section is returned only if 0.7 * title_score + 0.3 * content_score
\* is strictly above 40: one at exactly 40 is never returned, one above 40
\* is returned whenever it is within the first top_k.
C7_StrictFloor ==
    IsSearch
        => /\ \A r \in 1..Len(TheSearch.result) :
                \E i \in 1..Len(TheKb) :
                    /\ PassesFilter(i)
                    /\ TenthsOf(i) > 400
                    /\ TheSearch.result[r] = Scored(TheKb[i], TenthsOf(i))
           /\ \A i \in 1..Len(TheKb) :
                (PassesFilter(i) /\ TenthsOf(i) = 400)
                    => \A r \in 1..Len(TheSearch.result) :
                          TheSearch.result[r] # Scored(TheKb[i], 400)
           /\ \A i \in 1..Len(TheKb) :
                (/\ PassesFilter(i)
                 /\ TenthsOf(i) > 400
                 /\ RankIn({j \in 1..Len(TheKb) : PassesFilter(j) /\ TenthsOf(j) > 400},
                           TenthsOf, i) <= TheSearch.top_k)
                    => \E r \in 1..Len(TheSearch.result) :
                          TheSearch.result[r] = Scored(TheKb[i], TenthsOf(i))

\* A search that scored one section at exactly 40 and returned one at 40.1.
C7_Witness ==
    /\ IsSearch
    /\ \E i \in 1..Len(TheKb) : PassesFilter(i) /\ TenthsOf(i) = 400
    /\ \E r \in 1..Len(TheSearch.result) : TheSearch.result[r].score = 401

\* f occurs in s, letter case ignored.
ContainsIgnoringCase(s, f) ==
    \E off \in 0..(Len(s) - Len(f)) :
        \A k \in 1..Len(f) : LowerChar(s[off + k]) = LowerChar(f[k])

\* The sections above the floor whose main topic has the filter in it.
Matching ==
    {i \in 1..Len(TheKb) :
        /\ TheSearch.main_filter # NoFilter
              => ContainsIgnoringCase(TheKb[i].main_topic, TheSearch.main_filter[1])
        /\ TenthsOf(i) > 400}

\* C8: with a main_filter every returned section has main_filter in its
\* main_topic, case ignored, and the filter step discards no section that
\* has; without a main_filter the filter step discards nothing.
C8_FilterByMainTopic ==
    IsSearch
        => /\ \A r \in 1..Len(TheSearch.result) :
                TheSearch.main_filter # NoFilter
                    => ContainsIgnoringCase(TheSearch.result[r].main_topic,
                                            TheSearch.main_filter[1])
           /\ \A i \in Matching :
                RankIn(Matching, TenthsOf, i) <= TheSearch.top_k
                    => \E r \in 1..Len(TheSearch.result) :
                          TheSearch.result[r] = Scored(TheKb[i], TenthsOf(i))

\* A search with a filter in other letter case than the main topics: some
\* sections returned, others of the index not.
C8_Witness ==
    /\ IsSearch
    /\ TheSearch.main_filter = Some(<<"R", "e", "s", "T", "R", "I", "C", "T">>)
    /\ TheSearch.result # << >>
    /\ \E i \in 1..Len(TheKb) :
          /\ TenthsOf(i) > 400
          /\ ~ContainsIgnoringCase(TheKb[i].main_topic, TheSearch.main_filter[1])

(* Tool responses *)

Tools == {"solve_analytics_issue", "check_limits_and_compliance",
          "compare_platform_strategy", "get_metric_definition"}

IsToolResponse == response.op \in Tools /\ response.outcome = "return"

\* The contents of the sections a tool response displays, in order.
DisplayedContents ==
    IF server = "md"
    THEN LET body == SelectSeq(response.out.lines, LAMBDA l : l.kind = "content")
         IN  [i \in 1..Len(body) |-> body[i].text]
    ELSE [i \in 1..Len(response.out.sections) |->
            IF response.op = "get_metric_definition"
            THEN response.out.sections[i].text
            ELSE response.out.sections[i].content]

\* C9: every tool response displays at most 5 sections.
C9_AtMostFiveSections ==
    IsToolResponse => Len(DisplayedContents) <= JsonSectionCap

\* C10: in every tool response no two displayed sections have equal content.
C10_NoTwoDisplayedWithEqualContent ==
    IsToolResponse
        => \A i, j \in 1..Len(DisplayedContents) :
              i # j => DisplayedContents[i] # DisplayedContents[j]

(* ------------------------------------------------------------------------ *)
(* The presenter on long sections                                           *)
(* ------------------------------------------------------------------------ *)

\* A text of n characters.
LongText(n) == [i \in 1..n |-> "a"]

\* Sections at, one under and one over the character budget, under the main
\* topics the filtered tools and the glossary look for.
DocLong ==
    <<H1(T_limits), P(LongText(TruncateAt)),
      H1(T_restrictions), P(LongText(TruncateAt + 1)),
      H1(T_dimensions), P(LongText(TruncateAt + 1))>>

DocLongChoose ==
    <<H1(T_choose), P(LongText(TruncateAt + 1)),
      H1(T_discrepancies), P(LongText(TruncateAt - 1))>>

LongDocs == {DocLong, DocLongChoose}

\* The state after the imports, the playbook in place.
InitWith(docs) ==
    /\ server \in Servers
    /\ docExists = TRUE
    /\ docReadable = TRUE
    /\ docMtime = 1
    /\ docBlocks \in docs
    /\ knowledge_index = NoIndex
    /\ last_mtime = NoMtime
    /\ prevRet = [id |-> 0, how |-> "none"]
    /\ response = NoResponse
    /\ tpc = NoThreads
    /\ tmtime = [t \in Threads |-> NoMtime]
    /\ tlocal = [t \in Threads |-> NoIndex]
    /\ tret = [t \in Threads |-> NoIndex]

InitPresent == InitWith(LongDocs)

NextPresent ==
    \/ SolveAnalyticsIssue
    \/ CheckLimitsAndCompliance
    \/ ComparePlatformStrategy
    \/ GetMetricDefinition
    \/ Deliver

\* The tools on a playbook with sections around the character budget.
SpecPresent == InitPresent /\ [][NextPresent]_vars

\* The sections the searches of the response returned.
SearchResults ==
    UNION {{Calls[i].result[k] : k \in 1..Len(Calls[i].result)} : i \in CallIds}

\* C11: each displayed content is the original content when that has at most
\* 2000 characters, and otherwise its first 2000 characters followed by the
\* truncation marker.
C11_ContentWithinBudget ==
    IsToolResponse
        => \A d \in 1..Len(DisplayedContents) :
              \E r \in SearchResults :
                 IF Len(r.content) > 2000
                 THEN /\ Len(DisplayedContents[d]) > 2000
                      /\ SubSeq(DisplayedContents[d], 1, 2000) = SubSeq(r.content, 1, 2000)
                      /\ SubSeq(DisplayedContents[d], 2001, Len(DisplayedContents[d]))
                            = TRUNCATION_MARKER
                 ELSE DisplayedContents[d] = r.content

(* The filtered-search tools *)

IsFilteredResponse ==
    /\ response.op \in {"check_limits_and_compliance", "compare_platform_strategy"}
    /\ response.outcome = "return"

\* The sections a tool response displays: main topic, sub-topic, content.
DisplayedSections ==
    IF server = "md"
    THEN LET heads == SelectSeq(response.out.lines, LAMBDA l : l.kind = "heading")
             body == SelectSeq(response.out.lines, LAMBDA l : l.kind = "content")
         IN  {[main_topic |-> heads[i].main_topic, sub_topic |-> heads[i].sub_topic,
               content |-> body[i].text] : i \in 1..Len(heads)}
    ELSE {[main_topic |-> response.out.sections[i].main_topic,
           sub_topic |-> response.out.sections[i].sub_topic,
           content |-> response.out.sections[i].content] :
             i \in 1..Len(response.out.sections)}

\* A search result as a response shows it: the markdown server shortens a
\* content of more than 2000 characters.
ShownAs(r) ==
    [main_topic |-> r.main_topic, sub_topic |-> r.sub_topic,
     content |-> IF server = "md" /\ Len(r.content) > 2000
                 THEN SubSeq(r.content, 1, 2000) \o TRUNCATION_MARKER
                 ELSE r.content]

\* The response is of two searches, one per term of its tool, each returning
\* sections under a main topic with its term only.
OneSearchPerTerm ==
    /\ Len(Calls) = 2
    /\ \A i \in 1..2 :
          /\ Calls[i].kind = "search"
          /\ Calls[i].main_filter
                = Some(IF response.op = "check_limits_and_compliance"
                       THEN <<<<"r", "e", "s", "t", "r", "i", "c", "t", "i", "o", "n", "s">>,
                              <<"l", "i", "m", "i", "t", "s">>>>[i]
                       ELSE <<<<"c", "h", "o", "o", "s", "e">>,
                              <<"d", "i", "s", "c", "r", "e", "p", "a", "n", "c", "i", "e", "s">>>>[i])
          /\ Calls[i].q = Calls[1].q
          /\ \A k \in 1..Len(Calls[i].result) :
                ContainsIgnoringCase(Calls[i].result[k].main_topic,
                                     Calls[i].main_filter[1])

\* C12, as claimed: the response of a filtered-search tool holds every
\* section one of its two per-term searches returned, and no other section.
C12_UnionOfBothSearches ==
    IsFilteredResponse
        => /\ OneSearchPerTerm
           /\ DisplayedSections = {ShownAs(r) : r \in SearchResults}

\* C12, amended: the response holds no section but those its two per-term
\* searches returned, and for every section they returned it holds one of
\* the same content: in the JSON server that section itself, in the markdown
\* server one section per content.
C12_UnionUpToEqualContent ==
    IsFilteredResponse
        => /\ OneSearchPerTerm
           /\ DisplayedSections \subseteq {ShownAs(r) : r \in SearchResults}
           /\ \A r \in SearchResults :
                 \E d \in DisplayedSections : d.content = ShownAs(r).content
           /\ server = "json"
                 => \A r \in SearchResults : ShownAs(r) \in DisplayedSections
           /\ server = "md"
                 => \A d, e \in DisplayedSections : d.content = e.content => d = e

\* A markdown response of two searches that both returned a section, the
\* two of equal content and different topics.
C12_Witness ==
    /\ IsFilteredResponse
    /\ server = "md"
    /\ Len(Calls) = 2
    /\ \E k \in 1..Len(Calls[1].result), l \in 1..Len(Calls[2].result) :
          /\ Calls[1].result[k].content = Calls[2].result[l].content
          /\ Calls[1].result[k].main_topic # Calls[2].result[l].main_topic
    /\ Cardinality(DisplayedSections) = 1

(* No match and no document *)

\* What the tools answer when their searches return nothing.
NoMatchMessages ==
    {"No matching solution found in playbook.", "No matching solution found.",
     "No compliance or limit information found.", "No strategic comparison found.",
     "Definition not found in the glossary."}

\* Every search of the response ran on an index with sections and returned
\* none of them.
NothingMatched ==
    \A i \in CallIds : Calls[i].b.ret.secs # << >> /\ Calls[i].result = << >>

\* Every search of the response found the document missing.
DocumentUnavailable == \A i \in CallIds : Calls[i].b.how = "missing"

\* C13: a tool answers a search that matched nothing in a non-empty index
\* with its "no match" result, and answers with something else when the
\* index is empty because the document is unavailable.
C13_NoMatchDiffersFromUnavailable ==
    IsToolResponse
        => /\ NothingMatched => response.out.status \in NoMatchMessages
           /\ DocumentUnavailable => response.out.status \notin NoMatchMessages

(* ------------------------------------------------------------------------ *)
(* The extractor on every short block sequence                              *)
(* ------------------------------------------------------------------------ *)

\* A paragraph whose first run is bold.
BoldLabel(t) == Block("p", t, StyleNormal, TRUE, << >>, FALSE)

\* A table with the cell texts rows.
TableBlock(rows) == Block("tbl", << >>, << >>, FALSE, rows, FALSE)

\* A body child that is neither paragraph nor table and holds a drawing.
DrawingBlock == Block("other", << >>, << >>, FALSE, << >>, TRUE)

\* A paragraph that holds an inline picture and no text.
PictureParagraph == Block("p", << >>, StyleNormal, FALSE, << >>, TRUE)

Table2x2 == <<<<<<"N", "a", "m", "e">>, <<"V", "a", "l">>>>, <<<<"X">>, <<"1">>>>>>

BlockKinds ==
    {H1(<<"A">>), H2(<<"B">>), P(<<"x">>), P(<<" ">>),
     BoldLabel(LongText(ShortBoldLen - 1)), BoldLabel(LongText(ShortBoldLen)),
     TableBlock(Table2x2), TableBlock(<< >>), DrawingBlock, PictureParagraph}

BlockSeqs == UNION {[1..n -> BlockKinds] : n \in 0..MaxBlocks}

DocNesting ==
    <<H1(<<"A">>), P(<<"x">>), H2(<<"B">>), P(<<"y">>), H1(<<"C">>), P(<<"z">>)>>

\* One sub-heading twice, after content without sub-heading.
DocRepeat ==
    <<P(<<"x">>), H2(<<"B">>), P(<<"y">>), H2(<<"B">>), P(<<"z">>)>>

\* A heading with a blank paragraph and a table without rows, a sub-heading
\* with content, a heading at the end.
DocBarren ==
    <<H1(<<"A">>), P(<<" ">>), TableBlock(<< >>), H2(<<"B">>), P(<<"x">>),
      H1(<<"C">>)>>

ExtractDocs == BlockSeqs \cup {DocNesting, DocRepeat, DocBarren}

InitExtract == InitWith(ExtractDocs)

NextExtract ==
    \/ BuildKnowledgeIndex
    \/ GetComprehensiveOverview
    \/ Deliver

\* build_knowledge_index and the overview on every short playbook.
SpecExtract == InitExtract /\ [][NextExtract]_vars

(* The overview *)

IsOverview ==
    response.op = "get_comprehensive_overview" /\ response.outcome = "return"

\* The index the overview was made from.
OverviewIndex == Calls[1].b.ret.secs

IndexMainTopics == {OverviewIndex[i].main_topic : i \in 1..Len(OverviewIndex)}

IndexSubTopics(m) ==
    {OverviewIndex[i].sub_topic :
        i \in {j \in 1..Len(OverviewIndex) : OverviewIndex[j].main_topic = m}}

\* The overview lists every main topic of the index once and no other.
ListsMainTopicsOnce ==
    /\ {response.out.sections[i].main_topic : i \in 1..Len(response.out.sections)}
          = IndexMainTopics
    /\ \A i, j \in 1..Len(response.out.sections) :
          response.out.sections[i].main_topic = response.out.sections[j].main_topic
              => i = j

\* Nothing is listed twice under one main topic.
ListsSubTopicsOnce ==
    \A i \in 1..Len(response.out.sections) :
        \A k, l \in 1..Len(response.out.sections[i].sub_topics) :
            response.out.sections[i].sub_topics[k] = response.out.sections[i].sub_topics[l]
                => k = l

Listed(i) ==
    {response.out.sections[i].sub_topics[k] :
        k \in 1..Len(response.out.sections[i].sub_topics)}

\* C14, as claimed: the overview lists each main topic of the index with
\* exactly the distinct sub_topic values of its sections, each once, and
\* nothing that is not in the index.
C14_OverviewListsEverySubTopic ==
    IsOverview
        => /\ ListsMainTopicsOnce
           /\ ListsSubTopicsOnce
           /\ \A i \in 1..Len(response.out.sections) :
                 Listed(i) = IndexSubTopics(response.out.sections[i].main_topic)

\* C14, amended: as claimed in the JSON server; the markdown server lists
\* the distinct sub_topic values other than the main topic itself.
C14_OverviewListsSubTopicsButMain ==
    IsOverview
        => /\ ListsMainTopicsOnce
           /\ ListsSubTopicsOnce
           /\ \A i \in 1..Len(response.out.sections) :
                 Listed(i) = IndexSubTopics(response.out.sections[i].main_topic)
                                \ (IF server = "md"
                                   THEN {response.out.sections[i].main_topic}
                                   ELSE {})

\* An overview of an index with two sections of one sub-topic and one
\* section without sub-topic under the same main topic.
C14_Witness ==
    /\ IsOverview
    /\ \E m \in IndexMainTopics :
          /\ m \in IndexSubTopics(m)
          /\ Cardinality(IndexSubTopics(m)) = 2
          /\ Cardinality({j \in 1..Len(OverviewIndex) :
                             OverviewIndex[j].main_topic = m}) = 3

(* The index of a parse, told from the blocks of the document *)

\* The response of a build_knowledge_index call that parsed the document.
Extracted == response.op = "build_knowledge_index" /\ Calls[1].b.how = "rebuilt"

TheIndex == Calls[1].b.ret.secs

\* main topic, sub-topic and content of the sections of the index.
IndexTriples ==
    [k \in 1..Len(TheIndex) |->
        <<TheIndex[k].main_topic, TheIndex[k].sub_topic, TheIndex[k].content>>]

\* The kinds of block: a paragraph counts when it has text; a level-1
\* heading, a sub-heading (another heading level or a short bold label), body
\* text, a table, a drawing outside paragraphs and tables.
HasText(b) == b.tag = "p" /\ Strip(b.text) # << >>
IsLevel1(b) == HasText(b) /\ StartsWith(b.style, <<"H", "e", "a", "d", "i", "n", "g", " ", "1">>)
IsSubHeading(b) ==
    /\ HasText(b)
    /\ ~IsLevel1(b)
    /\ \/ StartsWith(b.style, <<"H", "e", "a", "d", "i", "n", "g">>)
       \/ b.bold /\ Len(Strip(b.text)) < 60
IsHeading(b) == IsLevel1(b) \/ IsSubHeading(b)
IsBody(b) == HasText(b) /\ ~IsHeading(b)
IsTable(b) == b.tag = "tbl"
IsPlacedDrawing(b) == b.tag \notin {"p", "tbl"} /\ b.drawing
IsPiece(b) == IsBody(b) \/ IsTable(b) \/ IsPlacedDrawing(b)

Largest(S) == CHOOSE x \in S : \A y \in S : y <= x

\* The places of the headings, and 0 for the start of the document.
Openers == {0} \cup {i \in 1..Len(docBlocks) : IsHeading(docBlocks[i])}

\* The opener the block at place i comes under.
OpenerOf(i) == Largest({h \in Openers : h < i})

\* The text of the nearest level-1 heading up to place i.
MainAt(i) ==
    LET tops == {j \in 1..i : IsLevel1(docBlocks[j])}
    IN  IF tops = {} THEN <<"G", "e", "n", "e", "r", "a", "l", " ", "O", "v", "e", "r", "v", "i", "e", "w">>
        ELSE Strip(docBlocks[Largest(tops)].text)

\* The text of the nearest sub-heading up to place i that comes after the
\* nearest level-1 heading; << >> when there is none.
SubAt(i) ==
    LET tops == {0} \cup {j \in 1..i : IsLevel1(docBlocks[j])}
        subs == {j \in (Largest(tops) + 1)..i : IsSubHeading(docBlocks[j])}
    IN  IF subs = {} THEN << >> ELSE Strip(docBlocks[Largest(subs)].text)

\* What the piece at place i adds to the content.
PieceText(i) ==
    IF IsBody(docBlocks[i]) THEN Strip(docBlocks[i].text)
    ELSE IF IsTable(docBlocks[i]) THEN parse_table_to_markdown(docBlocks[i].rows)
    ELSE GraphNote(server, [current_sub_topic |-> SubAt(i)])

\* The pieces under the opener h, and their texts in document order.
PiecesOf(h) ==
    {i \in 1..Len(docBlocks) : IsPiece(docBlocks[i]) /\ OpenerOf(i) = h}

PieceTexts(h) ==
    [r \in 1..Cardinality(PiecesOf(h)) |->
        PieceText(CHOOSE i \in PiecesOf(h) :
                     Cardinality({j \in PiecesOf(h) : j < i}) = r - 1)]

ContentOf(h) == Strip(Join(<<"\n">>, PieceTexts(h)))

\* The openers with content, and the place in the index of their sections.
Fertile == {h \in Openers : ContentOf(h) # << >>}

SectionNo(h) == Cardinality({g \in Fertile : g <= h})

\* C15: the blocks H1 "A", P "x", H2 "B", P "y", H1 "C", P "z" give the
\* sections (A, A, x), (A, B, y), (C, C, z) in this order; and whenever
\* content follows the last heading of a document (or the document has no
\* heading), the last section of the index is that content under the topics
\* of that heading.
C15_FinalFlush ==
    Extracted
        => /\ docBlocks = <<H1(<<"A">>), P(<<"x">>), H2(<<"B">>), P(<<"y">>),
                            H1(<<"C">>), P(<<"z">>)>>
                 => IndexTriples = << <<<<"A">>, <<"A">>, <<"x">>>>,
                                      <<<<"A">>, <<"B">>, <<"y">>>>,
                                      <<<<"C">>, <<"C">>, <<"z">>>> >>
           /\ LET h == Largest(Openers)
              IN  ContentOf(h) # << >>
                     => /\ TheIndex # << >>
                        /\ IndexTriples[Len(TheIndex)]
                              = <<MainAt(h),
                                  IF SubAt(h) # << >> THEN SubAt(h) ELSE MainAt(h),
                                  ContentOf(h)>>

\* The index of the six blocks of the example.
C15_Witness ==
    /\ Extracted
    /\ docBlocks = <<H1(<<"A">>), P(<<"x">>), H2(<<"B">>), P(<<"y">>),
                     H1(<<"C">>), P(<<"z">>)>>
    /\ Len(TheIndex) = 3

(* ------------------------------------------------------------------------ *)
(* The table serializer by itself                                           *)
(* ------------------------------------------------------------------------ *)

\* Cell texts: plain, and with blanks around and a newline inside.
CellTexts == {<<"X">>, <<" ", "a", "\n", "b", " ">>}

TableRowsOf == UNION {[1..c -> CellTexts] : c \in 0..MaxCells}

Tables == UNION {[1..n -> TableRowsOf] : n \in 0..MaxRows} \cup {Table2x2}

InitTable == InitWith({<<TableBlock(rows)>> : rows \in Tables})

\* parse_table_to_markdown(table) for the table of the document.
ParseTableToMarkdown ==
    /\ Idle
    /\ response' = [op |-> "parse_table_to_markdown", outcome |-> "return",
                    calls |-> << >>,
                    out |-> [status |-> "text", rows |-> docBlocks[1].rows,
                             text |-> parse_table_to_markdown(docBlocks[1].rows)]]
    /\ UNCHANGED <<server, docExists, docReadable, docMtime, docBlocks,
                   knowledge_index, last_mtime, prevRet, tpc, tmtime, tlocal, tret>>

\* The caller has the text.
TableReturned ==
    /\ response.op = "parse_table_to_markdown"
    /\ response' = NoResponse
    /\ UNCHANGED <<server, docExists, docReadable, docMtime, docBlocks,
                   knowledge_index, last_mtime, prevRet, tpc, tmtime, tlocal, tret>>

NextTable ==
    \/ ParseTableToMarkdown
    \/ TableReturned

\* Tables of up to MaxRows rows of up to MaxCells cells, serialized by
\* themselves.
SpecTable == InitTable /\ [][NextTable]_vars

IsTableText == response.op = "parse_table_to_markdown"

RECURSIVE SplitLines(_)
\* The lines of a text: the pieces between its newlines.
SplitLines(s) ==
    LET nl == {i \in 1..Len(s) : s[i] = "\n"}
    IN  IF nl = {} THEN <<s>>
        ELSE LET i == CHOOSE x \in nl : \A y \in nl : x <= y
             IN  <<SubSeq(s, 1, i - 1)>> \o SplitLines(SubSeq(s, i + 1, Len(s)))

\* The '|'-delimited line of the cell texts, each trimmed and its newlines
\* made blanks.
RowLine(row) ==
    <<"|", " ">>
    \o Join(<<" ", "|", " ">>, [k \in 1..Len(row) |-> ReplaceNewlines(Strip(row[k]))])
    \o <<" ", "|">>

\* The separator line of c cells.
SeparatorLine(c) ==
    <<"|", " ">> \o Join(<<" ", "|", " ">>, [k \in 1..c |-> <<"-", "-", "-">>]) \o <<" ", "|">>

\* C16: a table of n >= 1 rows is rendered as a newline, n + 1 lines and a
\* newline: the first row, a separator of as many '---' cells as the first
\* row has cells, then the other rows in order; a table of no rows as two
\* newlines.
C16_TableLines ==
    IsTableText
        => LET rows == response.out.rows
               text == response.out.text
               n == Len(rows)
               inner == SubSeq(text, 2, Len(text) - 1)
               lines == SplitLines(inner)
           IN  /\ Len(text) >= 2
               /\ text[1] = "\n" /\ text[Len(text)] = "\n"
               /\ n = 0 => text = <<"\n", "\n">>
               /\ n >= 1 =>
                    /\ Len(lines) = n + 1
                    /\ lines[1] = RowLine(rows[1])
                    /\ lines[2] = SeparatorLine(Len(rows[1]))
                    /\ \A k \in 2..n : lines[k + 1] = RowLine(rows[k])

\* The 2 x 2 table Name, Val / X, 1 rendered as three lines.
C16_Witness ==
    /\ IsTableText
    /\ response.out.rows = <<<<<<"N", "a", "m", "e">>, <<"V", "a", "l">>>>, <<<<"X">>, <<"1">>>>>>
    /\ SplitLines(response.out.text)
          = << << >>,
               <<"|", " ", "N", "a", "m", "e", " ", "|", " ", "V", "a", "l", " ", "|">>,
               <<"|", " ", "-", "-", "-", " ", "|", " ", "-", "-", "-", " ", "|">>,
               <<"|", " ", "X", " ", "|", " ", "1", " ", "|">>,
               << >> >>

\* The text p is a part of the text s.
Occurs(s, p) ==
    \E off \in 0..(Len(s) - Len(p)) : \A k \in 1..Len(p) : s[off + k] = p[k]

\* The section of the index the piece at place i went to has its text.
InItsSection(i) ==
    /\ OpenerOf(i) \in Fertile
    /\ Occurs(TheIndex[SectionNo(OpenerOf(i))].content, Strip(PieceText(i)))

\* The index has one section per opener with content, in document order,
\* whose content is the texts of the pieces under that opener, in document
\* order.
SectionsInDocumentOrder ==
    /\ Len(TheIndex) = Cardinality(Fertile)
    /\ \A h \in Fertile : TheIndex[SectionNo(h)].content = ContentOf(h)

\* C17, as claimed: every body-text block with text and every table has its
\* text in the section of the heading or sub-heading it comes under (the
\* default context before any heading), and sections and pieces are in
\* document order.
C17_EveryTextAndTableInOneSection ==
    Extracted
        => /\ SectionsInDocumentOrder
           /\ \A i \in 1..Len(docBlocks) :
                 (IsBody(docBlocks[i]) \/ IsTable(docBlocks[i])) => InItsSection(i)

\* C17, amended: the same for every body-text block with text and every
\* table that has a row; a table without rows is in a section only together
\* with other content.
C17_EveryTextAndRowedTableInOneSection ==
    Extracted
        => LET fertile == Fertile
               no(h) == Cardinality({g \in fertile : g <= h})
           IN  /\ Len(TheIndex) = Cardinality(fertile)
               /\ \A h \in fertile : TheIndex[no(h)].content = ContentOf(h)
               /\ \A i \in 1..Len(docBlocks) :
                     (IsBody(docBlocks[i])
                        \/ (IsTable(docBlocks[i]) /\ docBlocks[i].rows # << >>))
                           => /\ OpenerOf(i) \in fertile
                              /\ Occurs(TheIndex[no(OpenerOf(i))].content,
                                        Strip(PieceText(i)))

\* Body text, a table with rows and body text again under one heading.
C17_Witness ==
    /\ Extracted
    /\ Len(docBlocks) = 3
    /\ IsBody(docBlocks[1])
    /\ IsTable(docBlocks[2]) /\ docBlocks[2].rows # << >>
    /\ IsBody(docBlocks[3])
    /\ Len(TheIndex) = 1
    /\ Len(SplitLines(TheIndex[1].content)) = 7

\* Nothing but paragraphs without text, tables without rows and elements
\* without drawing comes under the opener h.
Barren(h) ==
    \A i \in 1..Len(docBlocks) :
        (i > h /\ OpenerOf(i) = h /\ ~IsHeading(docBlocks[i]))
            => \/ docBlocks[i].tag = "p" /\ Strip(docBlocks[i].text) = << >>
               \/ docBlocks[i].tag = "tbl" /\ docBlocks[i].rows = << >>
               \/ docBlocks[i].tag \notin {"p", "tbl"} /\ ~docBlocks[i].drawing

\* The place in the index of the section of an opener that is not barren.
PlaceOf(h) == Cardinality({g \in Openers : ~Barren(g) /\ g <= h})

\* C18: every section of the index has content that is not empty and is
\* trimmed; a heading or sub-heading (or the start of the document) with
\* nothing under it but blank paragraphs and tables without rows gives no
\* section, and every other one gives its section with its own topics.
C18_NoSectionWithoutContent ==
    Extracted
        => /\ \A k \in 1..Len(TheIndex) :
                 /\ TheIndex[k].content # << >>
                 /\ TheIndex[k].content[1] \notin {" ", "\n", "\t"}
                 /\ TheIndex[k].content[Len(TheIndex[k].content)] \notin {" ", "\n", "\t"}
           /\ Len(TheIndex) = Cardinality({h \in Openers : ~Barren(h)})
           /\ \A h \in Openers :
                 ~Barren(h)
                    => /\ TheIndex[PlaceOf(h)].main_topic = MainAt(h)
                       /\ TheIndex[PlaceOf(h)].sub_topic
                             = IF SubAt(h) # << >> THEN SubAt(h) ELSE MainAt(h)

\* A heading with a blank paragraph and a table without rows under it, then
\* a sub-heading with content and a heading at the end of the document: one
\* section.
C18_Witness ==
    /\ Extracted
    /\ Len(docBlocks) = 6
    /\ IsLevel1(docBlocks[1]) /\ Barren(1)
    /\ IsTable(docBlocks[3])
    /\ IsSubHeading(docBlocks[4]) /\ ~Barren(4)
    /\ IsLevel1(docBlocks[6]) /\ Barren(6)
    /\ IndexTriples = << <<<<"A">>, <<"B">>, <<"x">>>> >>

\* C19: the main_topic of every section is the text of the nearest level-1
\* heading before its content ("General Overview" without one), its
\* sub_topic the text of the nearest sub-heading (a heading of another
\* level, or a paragraph with bold first run and fewer than 60 characters)
\* between that level-1 heading and its content, and its main_topic where
\* there is none.
C19_TopicsFromNearestHeadings ==
    Extracted
        => LET fertile == Fertile
           IN  /\ Len(TheIndex) = Cardinality(fertile)
               /\ \A h \in fertile :
                     LET pieces == PiecesOf(h)
                         first == CHOOSE i \in pieces : \A j \in pieces : i <= j
                         sec == TheIndex[Cardinality({g \in fertile : g <= h})]
                     IN  /\ sec.main_topic = MainAt(first)
                         /\ sec.sub_topic
                               = IF SubAt(first) # << >> THEN SubAt(first)
                                 ELSE MainAt(first)

\* A sub-heading, a level-1 heading and body text: the section has the
\* heading as main topic and as sub-topic.
C19_Witness ==
    /\ Extracted
    /\ Len(docBlocks) = 3
    /\ IsSubHeading(docBlocks[1])
    /\ IsLevel1(docBlocks[2])
    /\ IsBody(docBlocks[3])
    /\ IndexTriples = << <<<<"A">>, <<"A">>, <<"x">>>> >>

\* The placeholder of a drawing at place i: it names the sub-topic open
\* there, or "Unlabeled Section".
PlaceholderAt(i) == Strip(GraphNote(server, [current_sub_topic |-> SubAt(i)]))

\* C20: tables and drawings open no section and change no topic (the index
\* has one section per heading with content); every table with rows has its
\* serialization, and every block with a drawing its placeholder, in the
\* content of the section that is open at its place.
C20_TablesAndDrawingsInOpenSection ==
    Extracted
        => /\ Len(TheIndex) = Cardinality(Fertile)
           /\ \A i \in 1..Len(docBlocks) :
                 /\ (IsTable(docBlocks[i]) /\ docBlocks[i].rows # << >>) => InItsSection(i)
                 /\ docBlocks[i].drawing
                       => /\ OpenerOf(i) \in Fertile
                          /\ Occurs(TheIndex[SectionNo(OpenerOf(i))].content,
                                    PlaceholderAt(i))

(* build_knowledge_index while the document is missing *)

\* A handler starts in this step: the server was idle and now holds a response.
HandlerRan == Idle /\ ~Idle'

\* What the calls of the handler that ran in this step did.
CallsMade == response'.calls

\* A handler that ran without a document wrote neither global, and each of
\* its build_knowledge_index calls returned, without parsing, an empty list
\* that is neither the cached object nor one a caller holds.
MissingCallKeepsCache ==
    (HandlerRan /\ ~docExists)
        => /\ knowledge_index' = knowledge_index
           /\ last_mtime' = last_mtime
           /\ \A i \in 1..Len(CallsMade) :
                 /\ ~CallsMade[i].b.parsed
                 /\ ~CallsMade[i].b.ret.isNone
                 /\ CallsMade[i].b.ret.secs = << >>
                 /\ CallsMade[i].b.ret.id \notin Held
                 /\ ~knowledge_index.isNone
                       => CallsMade[i].b.ret.id # knowledge_index.id

\* The call before this handler found no document, the document is there now
\* and its timestamp is the stored one: the first call of the handler returns
\* the cached object as it was, without parsing, and the globals stay.
CallAfterMissingHitsCache ==
    (/\ HandlerRan
     /\ prevRet.how = "missing"
     /\ docExists
     /\ ~knowledge_index.isNone
     /\ last_mtime = docMtime)
        => /\ ~CallsMade[1].b.parsed
           /\ CallsMade[1].b.ret = knowledge_index
           /\ knowledge_index' = knowledge_index
           /\ last_mtime' = last_mtime

\* C21: a build_knowledge_index call made while the document is missing
\* leaves the cached index and the stored timestamp as they are and returns a
\* new empty list; when the document is back with the stored timestamp, the
\* next call returns the index cached before, without parsing.
C21_MissingCallLeavesCache ==
    [][MissingCallKeepsCache /\ CallAfterMissingHitsCache]_vars

\* The document was away for one call and is back as it was: the call is
\* answered with the sections cached before the document went away.
C21_Witness ==
    /\ response.op = "build_knowledge_index"
    /\ prevRet.how = "missing"
    /\ docExists
    /\ Calls[1].b.how = "hit"
    /\ ~Calls[1].b.parsed
    /\ Calls[1].b.ret.secs # << >>
    /\ Calls[1].b.ret = knowledge_index
    /\ Calls[1].b.ret.id # prevRet.id

(* The cached index under the searching tools *)

SectionFields == {"main_topic", "sub_topic", "content", "search_key"}

\* The response is that of a tool that searches or lists the index.
IsReader == ~Idle /\ response.op # "build_knowledge_index"

\* r is a copy of the section item with a score added.
IsScoredCopyOf(r, item) ==
    /\ DOMAIN r = SectionFields \cup {"score"}
    /\ \A f \in SectionFields : r[f] = item[f]

\* C22: smart_search, get_comprehensive_overview and the tools that format
\* results leave the cached index as build_knowledge_index left it; with the
\* document unchanged it is, after the handler, the object cached before it,
\* with the same sections in the same order, each with main_topic, sub_topic,
\* content and search_key and no score; every result is a copy of a section
\* of the index searched, with a score.
C22_ReadersLeaveCache ==
    IsReader
        => /\ \A i \in CallIds :
                 /\ Calls[i].ki = Calls[i].b.ki
                 /\ FoundValidCache(i) => Calls[i].ki = Calls[i].pre.ki
                 /\ \A k \in 1..Len(Calls[i].result) :
                       \E j \in 1..Len(Calls[i].b.ret.secs) :
                          IsScoredCopyOf(Calls[i].result[k], Calls[i].b.ret.secs[j])
           /\ knowledge_index.isNone
                 \/ \A j \in 1..Len(knowledge_index.secs) :
                       DOMAIN knowledge_index.secs[j] = SectionFields
           /\ FoundValidCache(1) => knowledge_index = Calls[1].pre.ki

\* A filtered tool searched a cached index twice and found sections: the
\* cache holds what it held.
C22_Witness ==
    /\ response.op = "check_limits_and_compliance"
    /\ Len(Calls) = 2
    /\ FoundValidCache(1)
    /\ Calls[1].result # << >>
    /\ Calls[2].result # << >>
    /\ Calls[2].b.how = "hit"
    /\ knowledge_index.secs # << >>
    /\ knowledge_index = Calls[1].pre.ki

====
